---- MODULE Spec2Model ----
(***************************************************************************)
(* Model of examples/generic_processor.py: generic_processor(map_func,     *)
(* result_func, outpath, paths, batch_size).  One action per statement of  *)
(* the function; calls into collaborators (the parallel map, the reducer)  *)
(* are split into a call step and a return/raise step so that the states   *)
(* "inside" the call exist.                                                *)
(***************************************************************************)
EXTENDS Integers, Sequences, FiniteSets, TLC

\* ---------------------------------------------------------------- bounds
NumIds == 2     \* distinct identifiers that may occur in the input list
MaxLen == 5     \* longest input list
MaxBatch == 3   \* largest batch_size
MaxNeg == 1     \* most negative batch_size is -MaxNeg
MaxIter == MaxLen + 2  \* cap on n (only reached when batch_size < 0)

Ids == 1..NumIds
BatchSizes == (0 - MaxNeg)..MaxBatch
OutPaths == {1, 2}

Min(a, b) == IF a < b THEN a ELSE b
Max(a, b) == IF a > b THEN a ELSE b

SeqsUpTo(S, k) == UNION {[1..l -> S] : l \in 0..k}

\* ------------------------------------------------------- python helpers
\* Python clamps a slice bound: negative bounds count from the end.
SliceIndex(i, len) == IF i < 0 THEN Max(0, len + i) ELSE Min(i, len)

\* variant: paths[:batch_size - 1]
SliceToShort(s, b) == SubSeq(s, 1, SliceIndex(b - 1, Len(s)))
\* paths[:batch_size]
SliceTo(s, b) == SubSeq(s, 1, SliceIndex(b, Len(s)))

\* variants: paths[batch_size - 1:] and paths[batch_size + 1:]
SliceFromKeepsOne(s, b) == SubSeq(s, SliceIndex(b - 1, Len(s)) + 1, Len(s))
SliceFromDropsOne(s, b) == SubSeq(s, SliceIndex(b + 1, Len(s)) + 1, Len(s))
\* paths[batch_size:]
SliceFrom(s, b) == SubSeq(s, SliceIndex(b, Len(s)) + 1, Len(s))

\* math.ceil(float(l)/b) for b # 0 (exact for the small integers used here)
CeilDiv(l, b) ==
    IF b > 0 THEN (l + b - 1) \div b
    ELSE 0 - (l \div (0 - b))

\* the caller-supplied mapping function applied to one identifier
map_func(p) == 10 * p

\* FeatureReader(batch).multiprocessing(map_func): results in batch order
multiprocessing(b) == [i \in 1..Len(b) |-> map_func(b[i])]

Ev(op, arg) == [op |-> op, arg |-> arg]

VARIABLES
    arg_paths,   \* the caller's list object passed as `paths`
    batch_size,  \* the batch_size argument
    bad,         \* identifiers for which the parallel map raises
    outpath,     \* the outpath argument of the current call
    pc,          \* position in generic_processor
    f,           \* per outpath: state of the BZ2File handle
    disk,        \* per outpath: sequence of writes the stream received
    n, m,        \* progress counters
    paths,       \* the local name `paths` (remaining identifiers)
    batch,       \* current batch
    results,     \* result of the parallel map for the current batch
    w,           \* number of results the running reducer has written
    trace        \* per outpath: events of the call, in order

vars == <<arg_paths, batch_size, bad, outpath, pc, f, disk, n, m, paths,
          batch, results, w, trace>>

args == <<arg_paths, batch_size, bad>>

Log(e) == trace' = [trace EXCEPT ![outpath] = Append(@, e)]

Init ==
    /\ arg_paths \in SeqsUpTo(Ids, MaxLen)
    /\ batch_size \in BatchSizes
    /\ bad \in SUBSET Ids
    /\ outpath = 1
    /\ pc = "l13"
    /\ f = [o \in OutPaths |-> "none"]
    /\ disk = [o \in OutPaths |-> <<>>]
    /\ n = 0
    /\ m = 0
    /\ paths = arg_paths
    /\ batch = <<>>
    /\ results = <<>>
    /\ w = 0
    /\ trace = [o \in OutPaths |-> <<>>]

\* line 13: f = bz2.BZ2File(outpath, "w"); n = 0
Open ==
    /\ pc = "l13"
    /\ f' = [f EXCEPT ![outpath] = "open"]
    /\ disk' = [disk EXCEPT ![outpath] = <<>>]
    /\ n' = 0
    /\ pc' = "l15"
    /\ Log(Ev("open", <<>>))
    /\ UNCHANGED <<args, outpath, m, paths, batch, results, w>>

\* line 13 raising (the file cannot be created)
OpenFail ==
    /\ pc = "l13"
    /\ pc' = "raised"
    /\ Log(Ev("raise_io", <<>>))
    /\ UNCHANGED <<args, outpath, f, disk, n, m, paths, batch, results, w>>

\* line 15: m = math.ceil(float(len(paths))/batch_size)
Total ==
    /\ pc = "l15"
    /\ IF batch_size = 0
         THEN /\ pc' = "raised"
              /\ Log(Ev("raise_zero", <<>>))
              /\ m' = m
         ELSE /\ pc' = "l21"
              /\ m' = CeilDiv(Len(paths), batch_size)
              /\ trace' = trace
    /\ UNCHANGED <<args, outpath, f, disk, n, paths, batch, results, w>>

\* variant: the batch is removed from the caller's list in place
TakeBatchInPlace ==
    /\ pc = "l21"
    /\ n < MaxIter
    /\ batch' = SliceTo(paths, batch_size)
    /\ paths' = SliceFrom(paths, batch_size)
    /\ arg_paths' = SliceFrom(paths, batch_size)
    /\ n' = n + 1
    /\ pc' = "l26"
    /\ Log(Ev("take", SliceTo(paths, batch_size)))
    /\ UNCHANGED <<batch_size, bad, outpath, f, disk, m, results, w>>
\* lines 21-24: batch, paths = (paths[:batch_size], paths[batch_size:]); n += 1
TakeBatch ==
    /\ pc = "l21"
    /\ n < MaxIter
    /\ batch' = SliceTo(paths, batch_size)
    /\ paths' = SliceFrom(paths, batch_size)
    /\ n' = n + 1
    /\ pc' = "l26"
    /\ Log(Ev("take", SliceTo(paths, batch_size)))
    /\ UNCHANGED <<args, outpath, f, disk, m, results, w>>

\* variant: the result_func call is missing
MapCallSkipsReduce ==
    /\ pc = "l26"
    /\ pc' = "l33"
    /\ Log(Ev("map", batch))
    /\ UNCHANGED <<args, outpath, f, disk, n, m, paths, batch, results, w>>
\* line 26: feature_reader.multiprocessing(map_func) is dispatched
MapCall ==
    /\ pc = "l26"
    /\ pc' = "in_map"
    /\ Log(Ev("map", batch))
    /\ UNCHANGED <<args, outpath, f, disk, n, m, paths, batch, results, w>>

\* line 26: the parallel map returns
MapReturn ==
    /\ pc = "in_map"
    /\ \A i \in 1..Len(batch) : batch[i] \notin bad
    /\ results' = multiprocessing(batch)
    /\ pc' = "l27"
    /\ Log(Ev("mapped", multiprocessing(batch)))
    /\ UNCHANGED <<args, outpath, f, disk, n, m, paths, batch, w>>

\* variant: the exception of the parallel map is caught and ignored
MapRaiseSwallowed ==
    /\ pc = "in_map"
    /\ \E i \in 1..Len(batch) : batch[i] \in bad
    /\ results' = <<>>
    /\ pc' = "l27"
    /\ Log(Ev("raise_map", <<n>>))
    /\ UNCHANGED <<args, outpath, f, disk, n, m, paths, batch, w>>
\* line 26: the parallel map raises; nothing catches it
MapRaise ==
    /\ pc = "in_map"
    /\ \E i \in 1..Len(batch) : batch[i] \in bad
    /\ pc' = "raised"
    /\ Log(Ev("raise_map", <<n>>))
    /\ UNCHANGED <<args, outpath, f, disk, n, m, paths, batch, results, w>>

\* line 27: result_func(results, f) is called
ReduceCall ==
    /\ pc = "l27"
    /\ pc' = "in_reduce"
    /\ w' = 0
    /\ Log(Ev("reduce", results))
    /\ UNCHANGED <<args, outpath, f, disk, n, m, paths, batch, results>>

\* inside result_func: one f.write per result
Write ==
    /\ pc = "in_reduce"
    /\ w < Len(results)
    /\ IF f[outpath] = "open"
         THEN /\ disk' = [disk EXCEPT ![outpath] = Append(@, results[w + 1])]
              /\ w' = w + 1
              /\ pc' = pc
              /\ trace' = trace
         ELSE /\ pc' = "raised"
              /\ Log(Ev("raise_io", <<n>>))
              /\ UNCHANGED <<disk, w>>
    /\ UNCHANGED <<args, outpath, f, n, m, paths, batch, results>>

\* line 27: result_func returns
ReduceReturn ==
    /\ pc = "in_reduce"
    /\ w = Len(results)
    /\ pc' = "l33"
    /\ Log(Ev("reduced", <<>>))
    /\ UNCHANGED <<args, outpath, f, disk, n, m, paths, batch, results, w>>

\* variant: a try/finally closes the sink when result_func raises
ReduceRaiseCloses ==
    /\ pc = "in_reduce"
    /\ pc' = "raised"
    /\ f' = [f EXCEPT ![outpath] = "closed"]
    /\ Log(Ev("raise_io", <<n>>))
    /\ UNCHANGED <<args, outpath, disk, n, m, paths, batch, results, w>>
\* line 27: result_func raises (a sink I/O failure), after any number of writes
ReduceRaise ==
    /\ pc = "in_reduce"
    /\ pc' = "raised"
    /\ Log(Ev("raise_io", <<n>>))
    /\ UNCHANGED <<args, outpath, f, disk, n, m, paths, batch, results, w>>

\* lines 32-34: os.stat(outpath).st_size
Stat ==
    /\ pc = "l33"
    /\ pc' = "l36"
    /\ UNCHANGED <<args, outpath, f, disk, n, m, paths, batch, results, w, trace>>

\* lines 32-34: os.stat raises
StatRaise ==
    /\ pc = "l33"
    /\ pc' = "raised"
    /\ Log(Ev("raise_io", <<n>>))
    /\ UNCHANGED <<args, outpath, f, disk, n, m, paths, batch, results, w>>

\* variant: f.close() indented into the loop body
LoopTestClosesInLoop ==
    /\ pc = "l36"
    /\ pc' = IF Len(paths) = 0 THEN "l40" ELSE "l21"
    /\ f' = [f EXCEPT ![outpath] = IF Len(paths) = 0 THEN @ ELSE "closed"]
    /\ trace' = [trace EXCEPT ![outpath] =
                    IF Len(paths) = 0 THEN @ ELSE Append(@, Ev("close", <<>>))]
    /\ UNCHANGED <<args, outpath, disk, n, m, paths, batch, results, w>>
\* lines 36-37 and 19: if len(paths) == 0: break, else the next iteration
LoopTest ==
    /\ pc = "l36"
    /\ pc' = IF Len(paths) = 0 THEN "l40" ELSE "l21"
    /\ UNCHANGED <<args, outpath, f, disk, n, m, paths, batch, results, w, trace>>

\* lines 39-40: f.close() and return
Close ==
    /\ pc = "l40"
    /\ f' = [f EXCEPT ![outpath] = "closed"]
    /\ pc' = "done"
    /\ Log(Ev("close", <<>>))
    /\ UNCHANGED <<args, outpath, disk, n, m, paths, batch, results, w>>

\* the caller calls generic_processor again: same arguments, another outpath
Rerun ==
    /\ pc \in {"done", "raised"}
    /\ outpath = 1
    /\ outpath' = 2
    /\ pc' = "l13"
    /\ paths' = arg_paths
    /\ n' = 0
    /\ m' = 0
    /\ batch' = <<>>
    /\ results' = <<>>
    /\ w' = 0
    /\ UNCHANGED <<args, f, disk, trace>>

Next ==
    \/ Open
    \/ OpenFail
    \/ Total
    \/ TakeBatch
    \/ MapCall
    \/ MapReturn
    \/ MapRaise
    \/ ReduceCall
    \/ Write
    \/ ReduceReturn
    \/ ReduceRaise
    \/ Stat
    \/ StatRaise
    \/ LoopTest
    \/ Close

Spec == Init /\ [][Next]_vars

\* the calls the function makes return or raise; the interpreter keeps running
FairSpec == Init /\ [][Next]_vars /\ WF_vars(Next)

NextTwice ==
    \/ Next
    \/ Rerun

SpecTwice == Init /\ [][NextTwice]_vars
\* ------------------------------------------------- reading the trace
Last(s) == s[Len(s)]
IsPrefix(s, t) == Len(s) <= Len(t) /\ SubSeq(t, 1, Len(s)) = s

RECURSIVE Flatten(_)
Flatten(ss) == IF ss = <<>> THEN <<>> ELSE Head(ss) \o Flatten(Tail(ss))

RECURSIVE SumLen(_)
SumLen(ss) == IF ss = <<>> THEN 0 ELSE Len(Head(ss)) + SumLen(Tail(ss))

Sel(t, ops) == SelectSeq(t, LAMBDA e : e.op \in ops)
ArgsOf(t, op) == [i \in 1..Len(Sel(t, {op})) |-> Sel(t, {op})[i].arg]
Count(t, op) == Len(Sel(t, {op}))
Has(t, op) == \E i \in 1..Len(t) : t[i].op = op

Raises == {"raise_io", "raise_map", "raise_zero"}
Completed(o) == trace[o] # <<>> /\ Last(trace[o]).op = "close"
Aborted(o) == \E i \in 1..Len(trace[o]) : trace[o][i].op \in Raises
WellFormed == Len(arg_paths) >= 1 /\ batch_size >= 1
Malformed == Len(arg_paths) = 0 \/ batch_size <= 0

\* ------------------------------------------------------------ claims

\* C1: for a non-empty list and batch_size >= 1, on normal completion the
\* batches handed to the parallel map, concatenated in the order they were
\* taken, are the original identifier list (nothing dropped, duplicated or
\* reordered), and every mapped batch is the batch that was taken.
C1_BatchesPartitionInput ==
    \A o \in OutPaths :
        (WellFormed /\ Completed(o)) =>
            /\ Flatten(ArgsOf(trace[o], "map")) = arg_paths
            /\ ArgsOf(trace[o], "map") = ArgsOf(trace[o], "take")

C1_Witness ==
    /\ pc = "done"
    /\ Len(arg_paths) = 5
    /\ batch_size = 2
    /\ ArgsOf(trace[1], "map") =
          <<SubSeq(arg_paths, 1, 2), SubSeq(arg_paths, 3, 4), SubSeq(arg_paths, 5, 5)>>

\* C2: for every list length L >= 0 and batch_size B > 0, a completed run has
\* processed exactly ceil(L/B) batches, m is that number, and the batch
\* lengths sum to L.
C2_BatchCountIsCeil ==
    \A o \in OutPaths :
        (batch_size > 0 /\ Completed(o)) =>
            /\ Count(trace[o], "map") = CeilDiv(Len(arg_paths), batch_size)
            /\ Count(trace[o], "reduce") = CeilDiv(Len(arg_paths), batch_size)
            /\ (o = outpath => m = CeilDiv(Len(arg_paths), batch_size))
            /\ SumLen(ArgsOf(trace[o], "map")) = Len(arg_paths)

\* C3: for a non-empty list of length L and batch_size B >= 1, no empty batch
\* is ever mapped or reduced; on completion every batch but the last has B
\* identifiers and the last has B if B divides L and L mod B otherwise.
C3_BatchSizes ==
    \A o \in OutPaths :
        WellFormed =>
            /\ \A i \in 1..Len(trace[o]) :
                  trace[o][i].op \in {"take", "map", "reduce"}
                      => Len(trace[o][i].arg) > 0
            /\ Completed(o) =>
                  LET bs == ArgsOf(trace[o], "map")
                      L == Len(arg_paths)
                  IN /\ Len(bs) >= 1
                     /\ \A i \in 1..(Len(bs) - 1) : Len(bs[i]) = batch_size
                     /\ Len(bs[Len(bs)]) =
                           (IF L % batch_size = 0 THEN batch_size
                                                  ELSE L % batch_size)
                     /\ ArgsOf(trace[o], "reduce") =
                           [i \in 1..Len(bs) |-> multiprocessing(bs[i])]

C3_Witness ==
    /\ pc = "done"
    /\ batch_size = 2
    /\ Len(arg_paths) \in {4, 5}
    /\ Count(trace[1], "reduce") = (Len(arg_paths) + 1) \div 2
    /\ Len(Last(ArgsOf(trace[1], "map"))) = 2 - (Len(arg_paths) % 2)

\* C4: the sink is opened once, before any batch is taken or mapped, is open
\* whenever the parallel map or the reducer is running, and is closed once,
\* as the last thing the run does, right after the last reduce call returned;
\* nothing is mapped or reduced after the close.
C4_SinkLifecycle ==
    \A o \in OutPaths :
        LET t == trace[o] IN
        /\ Count(t, "open") <= 1
        /\ Count(t, "close") <= 1
        /\ \A i \in 1..Len(t) :
              /\ t[i].op \in {"take", "map", "mapped", "reduce", "reduced"}
                    => t[1].op = "open"
              /\ t[i].op = "close"
                    => i = Len(t) /\ i > 1 /\ t[i - 1].op = "reduced"
        /\ (o = outpath /\ pc \in {"l26", "in_map", "l27", "in_reduce"})
              => f[o] = "open"
        /\ (o = outpath /\ pc = "done")
              => /\ f[o] = "closed"
                 /\ Count(t, "open") = 1
                 /\ Count(t, "close") = 1
        /\ Has(t, "close") => f[o] = "closed"

C4_Witness ==
    /\ pc = "done"
    /\ f[1] = "closed"
    /\ Count(trace[1], "reduced") >= 2
    /\ Last(trace[1]).op = "close"

\* C5: take, map dispatch, map return, reduce call and reduce return happen
\* in that order for a batch and the next batch is taken only after the
\* reduce of the one before returned; the mapped batch is the one taken and
\* the reduced results are the ones the map returned; reduce runs once per
\* batch.
Cycle == <<"take", "map", "mapped", "reduce", "reduced">>

C5_BatchesDoNotOverlap ==
    \A o \in OutPaths :
        LET t == Sel(trace[o], {"take", "map", "mapped", "reduce", "reduced"}) IN
        /\ \A i \in 1..Len(t) : t[i].op = Cycle[((i - 1) % 5) + 1]
        /\ \A i \in 1..Len(t) :
              /\ t[i].op = "map" => t[i].arg = t[i - 1].arg
              /\ t[i].op = "reduce" => t[i].arg = t[i - 1].arg
        /\ Completed(o) => Count(trace[o], "reduce") = Count(trace[o], "take")

C5_Witness ==
    /\ pc = "in_map"
    /\ n = 2
    /\ Count(trace[1], "reduced") = 1
    /\ Count(trace[1], "map") = 2

\* C6: when the parallel map raises in batch k the run is over: the raise is
\* the last event, reduce was called for batches 1..k-1 only, k batches were
\* taken, and the sink holds exactly the results of batches 1..k-1 in order;
\* a raised run takes no further step.
C6_MapFailureState ==
    \A o \in OutPaths :
        \A i \in 1..Len(trace[o]) :
            trace[o][i].op = "raise_map" =>
                LET k == trace[o][i].arg[1]
                    bs == ArgsOf(trace[o], "take")
                IN /\ i = Len(trace[o])
                   /\ (o = outpath => pc = "raised")
                   /\ k >= 1
                   /\ Len(bs) = k
                   /\ Count(trace[o], "map") = k
                   /\ Count(trace[o], "reduce") = k - 1
                   /\ Count(trace[o], "reduced") = k - 1
                   /\ disk[o] = multiprocessing(Flatten(SubSeq(bs, 1, k - 1)))
                   /\ batch_size >= 1 =>
                         disk[o] = multiprocessing(
                             SubSeq(arg_paths, 1, (k - 1) * batch_size))

C6_MapFailureAborts ==
    /\ []C6_MapFailureState
    /\ [][pc = "raised" => UNCHANGED vars]_vars

C6_Witness ==
    /\ pc = "raised"
    /\ Last(trace[1]) = Ev("raise_map", <<2>>)
    /\ batch_size = 2
    /\ Len(disk[1]) = 2

\* C7: with an empty identifier list or a batch_size <= 0 the sink is never
\* opened and nothing is mapped or reduced.
C7_MalformedFailsFast ==
    Malformed =>
        \A o \in OutPaths :
            /\ f[o] = "none"
            /\ ~Has(trace[o], "open")
            /\ ~Has(trace[o], "map")
            /\ ~Has(trace[o], "reduce")

\* C8: a second call with the same arguments and another outpath, absent
\* sink I/O failures, repeats the events of the first call (the same takes,
\* maps and reduce calls with the same results) and writes the same content.
NoIOFailure(o) == ~Has(trace[o], "raise_io")

C9_Terminates ==
    /\ [][(pc = "l21" /\ pc' = "l26" /\ batch_size >= 1 /\ Len(paths) > 0)
            => Len(paths') < Len(paths)]_vars
    /\ (batch_size >= 1) =>
          <>(pc = "raised" \/ (pc = "done" /\ f[outpath] = "closed"))

C9_Witness ==
    /\ pc = "done"
    /\ f[outpath] = "closed"
    /\ n >= 3
    /\ paths = <<>>

\* C10: once a run has raised after opening the sink, the sink is still open
\* and stays so: the raise is the last event, there is no close, the content
\* is what the reduce calls wrote up to then, and no further step is taken.
C10_AbortedState ==
    \A o \in OutPaths :
        (Aborted(o) /\ Has(trace[o], "open")) =>
            LET rs == ArgsOf(trace[o], "reduce") IN
            /\ f[o] = "open"
            /\ ~Has(trace[o], "close")
            /\ Last(trace[o]).op \in Raises
            /\ Count(trace[o], "raise_io") + Count(trace[o], "raise_map")
                  + Count(trace[o], "raise_zero") = 1
            /\ IsPrefix(disk[o], Flatten(rs))
            /\ Len(disk[o]) >= SumLen(SubSeq(rs, 1, Count(trace[o], "reduced")))

C10_AbortLeavesSinkOpen ==
    /\ []C10_AbortedState
    /\ [][(pc = "raised" /\ f[outpath] = "open") =>
            (pc' = "raised" /\ f' = f /\ disk' = disk)]_vars

C10_Witness ==
    /\ pc = "raised"
    /\ Last(trace[1]) = Ev("raise_io", <<2>>)
    /\ f[1] = "open"
    /\ Len(disk[1]) = 3
    /\ batch_size = 2
====
